---- MODULE Spec2Model ----
(***************************************************************************)
(* Planning / selection / aggregation core of the financial analyst agent: *)
(* Controller (controller.py), Evaluator (evaluator.py) and LLMFilter      *)
(* (filter.py, controller.py).                                             *)
(*                                                                         *)
(* Text is modelled as a sequence of tokens.  The tokens that the code     *)
(* treats specially ("---", "Subtask 1:", "Subtask 2:", ";", " ", "\n")    *)
(* are tokens of their own, every other token is an opaque word.  split,   *)
(* replace, strip and splitlines work on these sequences the way the       *)
(* Python string methods work on characters.                               *)
(***************************************************************************)
EXTENDS Integers, Sequences, FiniteSets, TLC

\* ------------------------------------------------------------------ bounds
MaxLines == 3   \* score lines in one completion
MaxTopK  == 3   \* largest configured top_k
MaxTurns == 2   \* user turns in one session
MaxPrior == 5   \* messages before the current query in an enumerated history

\* --------------------------------------------------------------- constants
AgentConfigThreshold == 5
DefaultMaxHistoryLen == 4

DELIM  == "---"
LABEL1 == "Subtask 1:"
LABEL2 == "Subtask 2:"
SEMI   == ";"
SP     == " "
NL     == "\n"

Whitespace == {SP, NL}

\* the chains registered by AgentConfig._init_chains, in registration order
ChainList == <<"doc_retrieval_chain", "search_chain", "pandas_chain">>
Chains    == {ChainList[i] : i \in 1..Len(ChainList)}

Thresholds == {AgentConfigThreshold, 8}

\* values of Controller._top_k, which LLMController.__init__ of the council
\* library sets; the design names topK an integer option of the controller
TopKs == 0..MaxTopK

\* ---------------------------------------------------- str methods (Python)
Min(a, b) == IF a < b THEN a ELSE b
Max(a, b) == IF a > b THEN a ELSE b

\* str.split(sep): the segments between occurrences of sep, at least one
RECURSIVE split(_, _)
split(s, sep) ==
    IF \A i \in 1..Len(s) : s[i] # sep
    THEN <<s>>
    ELSE LET i == CHOOSE k \in 1..Len(s) :
                      s[k] = sep /\ \A j \in 1..(k - 1) : s[j] # sep
         IN  <<SubSeq(s, 1, i - 1)>> \o split(SubSeq(s, i + 1, Len(s)), sep)

\* str.replace(old, ""): every non-overlapping occurrence of old removed
RECURSIVE replace(_, _)
replace(s, old) ==
    IF Len(s) < Len(old) THEN s
    ELSE IF SubSeq(s, 1, Len(old)) = old
         THEN replace(SubSeq(s, Len(old) + 1, Len(s)), old)
         ELSE <<s[1]>> \o replace(Tail(s), old)

\* str.strip(): leading and trailing whitespace removed
RECURSIVE lstrip(_)
lstrip(s) == IF s # <<>> /\ s[1] \in Whitespace THEN lstrip(Tail(s)) ELSE s

RECURSIVE rstrip(_)
rstrip(s) ==
    IF s # <<>> /\ s[Len(s)] \in Whitespace
    THEN rstrip(SubSeq(s, 1, Len(s) - 1))
    ELSE s

strip(s) == rstrip(lstrip(s))

\* str.splitlines(): no line for the empty string, none after a final "\n"
splitlines(s) ==
    IF s = <<>> THEN <<>>
    ELSE LET parts == split(s, NL)
         IN  IF parts[Len(parts)] = <<>>
             THEN SubSeq(parts, 1, Len(parts) - 1)
             ELSE parts

\* list[:k] of Python, for any integer k
Slice(items, k) ==
    IF k >= 0 THEN SubSeq(items, 1, Min(k, Len(items)))
    ELSE SubSeq(items, 1, Max(0, Len(items) + k))

\* -------------------------------------------------- Controller.parse_response
\* raised = "IndexError" when split("---") has no element 1
parse_response(response) ==
    LET segs  == split(response, DELIM)
        query == strip(replace(replace(segs[1], <<LABEL1>>), <<LABEL1, SP>>))
    IN  IF Len(segs) < 2
        THEN [raised |-> "IndexError", query |-> query, selection |-> <<>>]
        ELSE [raised |-> "",
              query |-> query,
              selection |->
                  strip(replace(replace(segs[2], <<LABEL2>>), <<LABEL2, SP>>))]

\* ------------------------------------------------------------ score lines
NumTokens == {"3", "5", "8", "9"}
NumVal(t) == CASE t = "3" -> 3 [] t = "5" -> 5 [] t = "8" -> 8 [] t = "9" -> 9

None == [some |-> FALSE, chain |-> "", score |-> 0]
Some(c, v) == [some |-> TRUE, chain |-> c, score |-> v]

\* LLMController._parse_line of the council library, as section 4.1 of the
\* design describes parseScoreLine
parse_line(line, chains) ==
    LET fields == split(line, SEMI)
    IN  IF line = <<"unknown">> THEN None
        ELSE IF Len(fields) < 2 THEN None
        ELSE LET name  == strip(fields[1])
                 score == strip(fields[2])
             IN  IF Len(score) # 1 \/ score[1] \notin NumTokens THEN None
                 ELSE IF Len(name) # 1 \/ name[1] \notin chains THEN None
                 ELSE Some(name[1], NumVal(score[1]))

\* ------------------------------------------------------ Controller._execute
\* line 55, the condition of the comprehension: `is_some()` guards `unwrap()`,
\* which raises on an empty Option
KeepGE(r, threshold) ==
    IF ~r.some THEN "drop"
    ELSE IF r.score >= threshold THEN "keep" ELSE "drop"

KeepUnguarded(r, threshold) ==
    IF ~r.some THEN "raise"
    ELSE IF r.score > threshold THEN "keep" ELSE "drop"

Keep(r, threshold) ==
    IF ~r.some THEN "drop"
    ELSE IF r.score > threshold THEN "keep" ELSE "drop"

\* lines 48-51; `line` is the position of the score line in the completion,
\* kept with each tuple so that properties can name the line a unit stems from
ParseLines(lines, chains) ==
    [i \in 1..Len(lines) |->
        LET r == parse_line(lines[i], chains)
        IN  [some |-> r.some, chain |-> r.chain, score |-> r.score, line |-> i]]

\* list.sort(key=score, reverse=True): descending, equal keys keep their order
InsertTiesFirst(sorted, e) ==
    LET k == Cardinality({i \in 1..Len(sorted) : sorted[i].score > e.score})
    IN  SubSeq(sorted, 1, k) \o <<e>> \o SubSeq(sorted, k + 1, Len(sorted))

Insert(sorted, e) ==
    LET k == Cardinality({i \in 1..Len(sorted) : sorted[i].score >= e.score})
    IN  SubSeq(sorted, 1, k) \o <<e>> \o SubSeq(sorted, k + 1, Len(sorted))

RECURSIVE SortInto(_, _)
SortInto(sorted, items) ==
    IF items = <<>> THEN sorted
    ELSE SortInto(Insert(sorted, items[1]), Tail(items))

sort_reverse(items) == SortInto(<<>>, items)

\* ChatMessage.chain(text)
ChainMessage(text) ==
    [kind |-> "Chain", message |-> text, source |-> "", is_error |-> FALSE]

RawInitialState(query, response) == ChainMessage(response)

\* lines 62-66: the initial state of a unit
InitialState(query, response) == ChainMessage(query)

\* line 64: the budget handed to a unit is the context's budget object
UnitBudget(ctxBudget) == ctxBudget

ExecutionUnit(chain, budget, initial_state) ==
    [chain |-> chain, budget |-> budget, initial_state |-> initial_state]

NoTruncate(items, top_k) == items

TruncateOneLess(items, top_k) == Slice(items, top_k - 1)

\* line 71: result[: self._top_k]
Truncate(items, top_k) == Slice(items, top_k)

\* lines 42-71 after the completion has been received.  `ranked` is the list
\* `filtered` after the sort, `selected` the tuples the returned units stem from.
Controller_execute(response, chains, threshold, top_k, ctxBudget) ==
    LET pr       == parse_response(response)
        parsed   == ParseLines(splitlines(pr.selection), chains)
        verdict  == [i \in 1..Len(parsed) |-> Keep(parsed[i], threshold)]
        kept     == {i \in 1..Len(parsed) : verdict[i] = "keep"}
        filtered == SelectSeq(parsed, LAMBDA r : r.line \in kept)
        ranked   == sort_reverse(filtered)
        result   == [i \in 1..Len(ranked) |->
                        ExecutionUnit(ranked[i].chain, UnitBudget(ctxBudget),
                                      InitialState(pr.query, response))]
        empty    == [raised |-> "", query |-> pr.query, plan |-> <<>>,
                     ranked |-> <<>>, selected |-> <<>>]
    IN  IF pr.raised # ""
        THEN [empty EXCEPT !.raised = pr.raised]
        ELSE IF \E i \in 1..Len(parsed) : verdict[i] = "raise"
        THEN [empty EXCEPT !.raised = "OptionException"]
        ELSE IF Len(filtered) = 0
        THEN empty
        ELSE [raised |-> "", query |-> pr.query,
              plan |-> Truncate(result, top_k),
              ranked |-> ranked,
              selected |-> Truncate(ranked, top_k)]

\* --------------------------------------------------------- Evaluator.execute
SkillMessage(text, is_error) ==
    [kind |-> "Skill", message |-> text, source |-> "", is_error |-> is_error]

\* ChatMessage.agent(message, data=None, source, is_error)
AgentMessage(text, source, is_error) ==
    [kind |-> "Agent", message |-> text, source |-> source, is_error |-> is_error]

ScoredChatMessage(message, score) == [message |-> message, score |-> score]

Last(s) == s[Len(s)]

IsCollectedAnySkill(chain_result) == chain_result.kind = "Skill"

\* line 20: chain_result.is_kind_skill and chain_result.is_ok
IsCollected(chain_result) ==
    chain_result.kind = "Skill" /\ ~chain_result.is_error

\* lines 17-29; `order` is the iteration order of the chainHistory dict
RECURSIVE Evaluator_loop(_, _, _)
Evaluator_loop(history, order, result) ==
    IF order = <<>> THEN result
    ELSE LET chain_name   == order[1]
             chain_result == Last(Last(history[chain_name]))
         IN  Evaluator_loop(history, Tail(order),
                 IF IsCollected(chain_result)
                 THEN Append(result,
                          ScoredChatMessage(
                              AgentMessage(chain_result.message, chain_name,
                                           chain_result.is_error), 1))
                 ELSE result)

Evaluator_execute(history, order) == Evaluator_loop(history, order, <<>>)

\* --------------------------------------------------------- LLMFilter._execute
\* filter.py lines 26-30: the $context of the synthesis prompt
RECURSIVE BuildContext(_)
BuildContext(agent_messages) ==
    IF agent_messages = <<>> THEN <<>>
    ELSE <<"Response: ">> \o agent_messages[1].message.message \o <<"\n\n">>
         \o BuildContext(Tail(agent_messages))

LastChoice(choices) == choices[Len(choices)]

\* LLMResponse.first_choice
first_choice(choices) == choices[1]

\* filter.py line 23 (controller.py line 199)
LLMFilter_execute(choices) ==
    <<ScoredChatMessage(AgentMessage(first_choice(choices), "", FALSE), 1)>>

\* ------------------------------------------------ Controller.build_chat_history
NO_HISTORY == <<"No conversational history">>

FirstItems(items, n) == SubSeq(items, 1, Min(n, Len(items)))

\* items[-n:] of Python, for n > 0
LastItems(items, n) == SubSeq(items, Max(1, Len(items) - n + 1), Len(items))

WithCurrent(messages) == messages

\* line 154: context.chat_history.messages[:-1]
MessageHistory(messages) == Slice(messages, -1)

\* lines 161-164
RenderMessage(msg) ==
    (IF msg.kind = "User" THEN <<"User: ">> \o msg.message \o <<NL>> ELSE <<>>)
    \o
    (IF msg.kind = "Agent"
     THEN <<"Assistant: ">> \o msg.message \o <<NL>>
     ELSE <<>>)

\* lines 160-164: the loop over message_history[-max_history_len:]
RECURSIVE RenderHistory(_)
RenderHistory(msgs) ==
    IF msgs = <<>> THEN <<>>
    ELSE RenderMessage(msgs[1]) \o RenderHistory(Tail(msgs))

\* lines 150-166
build_chat_history(messages, max_history_len) ==
    LET message_history == MessageHistory(messages)
    IN  IF Len(message_history) < 1
        THEN NO_HISTORY
        ELSE RenderHistory(LastItems(message_history, max_history_len))

\* ------------------------------------------------------------------ inputs
Queries == { <<"How", SP, "old", SP, "is", SP, "he?">>, <<"Price?">> }

ValidLines ==
    { <<"doc_retrieval_chain", SEMI, "8", SEMI, "relevant">>,
      <<"search_chain", SEMI, "8">>,
      <<SP, "pandas_chain", SP, SEMI, SP, "9", SEMI, "prices">>,
      <<"search_chain", SEMI, "5", SEMI, "so-so">> }

InvalidLines ==
    { <<"unknown">>,
      <<"wiki_chain", SEMI, "9", SEMI, "relevant">>,
      <<"doc_retrieval_chain", SEMI, "high", SEMI, "relevant">> }

LineSet == ValidLines \cup InvalidLines

\* what a valid line of LineSet says, read off the line itself
LineChain(line) == CHOOSE c \in Chains : \E i \in 1..Len(line) : line[i] = c
LineScore(line) ==
    NumVal(CHOOSE t \in NumTokens : \E i \in 1..Len(line) : line[i] = t)

LineLists(S, n) == UNION { [1..k -> S] : k \in 0..n }

RECURSIVE JoinLines(_)
JoinLines(lines) ==
    IF lines = <<>> THEN <<>>
    ELSE IF Len(lines) = 1 THEN lines[1]
    ELSE lines[1] \o <<NL>> \o JoinLines(Tail(lines))

\* the completion the prompt asks for: "Subtask 1: {q}\n---\nSubtask 2:\n{lines}"
WellFormed(q, lines) ==
    <<LABEL1, SP>> \o q \o <<NL, DELIM, NL, LABEL2, NL>> \o JoinLines(lines)

\* a completion without the delimiter
Undelimited(q, lines) == <<LABEL1, SP>> \o q \o <<NL>> \o JoinLines(lines)

Render(form, q, lines) ==
    IF form = "delimited" THEN WellFormed(q, lines) ELSE Undelimited(q, lines)

Forms == {"delimited", "undelimited"}

\* the completions a multi-turn session draws from
DocLine    == <<"doc_retrieval_chain", SEMI, "8", SEMI, "relevant">>
PandasLine == <<SP, "pandas_chain", SP, SEMI, SP, "9", SEMI, "prices">>
SessionLineLists ==
    { <<>>, <<DocLine>>, <<PandasLine>>, <<DocLine, PandasLine>> }
SessionQueries == { <<"How", SP, "old", SP, "is", SP, "he?">> }
UserTexts == { <<"How", SP, "old", SP, "is", SP, "he?">> }

Answers == { <<"report">>, <<"nothing", SP, "found">> }
ChoiceLists == (Answers \X Answers) \cup { <<a>> : a \in Answers }

Outcomes == {"ok", "error", "none"}

\* -------------------------------------------------------------------- state
VARIABLES
    controller,          \* "ok", or the exception raised by the constructor
    response_threshold,  \* Controller._response_threshold
    top_k,               \* Controller._top_k
    chat_history,        \* context.chat_history.messages
    ctxBudget,           \* identity of context.budget
    chainHistory,        \* context.chainHistory: chain name -> its histories
    chainOrder,          \* key order of context.chainHistory
    llmQuery,            \* the query and the score lines the planning
    llmLines,            \*   completion was written from
    response,            \* text of the planning completion
    raised,              \* exception that ended the turn, "" for none
    plan,                \* List[ExecutionUnit] returned by Controller._execute
    cursor,              \* next unit of the plan to run
    evaluation,          \* context.evaluation, the result of Evaluator.execute
    choices,             \* choices of the synthesis completion
    prompt,              \* $context of the synthesis prompt
    final,               \* result of LLMFilter._execute
    llmCalls,            \* completion calls of this turn, per component
    pc,                  \* stage of the turn
    turn,                \* number of the turn
    reformulated,        \* query_reformulation_result of Controller._execute
    history_text,        \* $conversational_history of the planning prompt
    expired              \* context.budget.is_expired()

vars == <<controller, response_threshold, top_k, chat_history, ctxBudget,
          chainHistory, chainOrder, llmQuery, llmLines, response, raised, plan,
          cursor, evaluation, choices, prompt, final, llmCalls, pc, turn,
          reformulated, history_text, expired>>

config == <<controller, response_threshold, top_k>>

NoCalls == [controller |-> 0, filter |-> 0]

\* agent_config.py line 45 passes (llm, response_threshold=5) to a constructor
\* whose parameters are (chains, llm, response_threshold): `llm` is missing
AgentConfig_init == "TypeError"

Init ==
    /\ \/ /\ controller = "ok"
          /\ response_threshold \in Thresholds
          /\ top_k \in TopKs
       \/ /\ controller = AgentConfig_init
          /\ response_threshold = AgentConfigThreshold
          /\ top_k = 0
    /\ chat_history = <<>>
    /\ ctxBudget = 0
    /\ chainHistory = [c \in Chains |-> <<>>]
    /\ chainOrder = <<>>
    /\ llmQuery = <<>>
    /\ llmLines = <<>>
    /\ response = <<>>
    /\ raised = ""
    /\ plan = <<>>
    /\ cursor = 1
    /\ evaluation = <<>>
    /\ choices = <<>>
    /\ prompt = <<>>
    /\ final = <<>>
    /\ llmCalls = NoCalls
    /\ pc = "ready"
    /\ turn = 0
    /\ reformulated = <<>>
    /\ history_text = <<>>
    /\ expired = FALSE

UserMessage(text) ==
    [kind |-> "User", message |-> text, source |-> "", is_error |-> FALSE]

\* A user turn begins: the answer of the finished turn and the new query are
\* appended to the chat history, and the turn gets its own Budget (example.py
\* lines 20-22).  The chain histories of earlier turns stay in the context.
NewTurn ==
    /\ controller = "ok"
    /\ pc \in {"ready", "done", "raised"}
    /\ turn < MaxTurns
    /\ \E q \in UserTexts :
          chat_history' =
              (IF pc = "done"
               THEN Append(chat_history, final[1].message)
               ELSE chat_history) \o <<UserMessage(q)>>
    /\ turn' = turn + 1
    /\ ctxBudget' = turn + 1
    /\ llmQuery' = <<>>
    /\ llmLines' = <<>>
    /\ response' = <<>>
    /\ raised' = ""
    /\ plan' = <<>>
    /\ cursor' = 1
    /\ evaluation' = <<>>
    /\ choices' = <<>>
    /\ prompt' = <<>>
    /\ final' = <<>>
    /\ llmCalls' = NoCalls
    /\ pc' = "idle"
    /\ reformulated' = <<>>
    /\ history_text' = <<>>
    /\ expired' = FALSE
    /\ UNCHANGED <<config, chainHistory, chainOrder>>

\* Controller._execute, line 42: the completion call fails and the exception
\* leaves _execute
ControllerLLMFails ==
    /\ pc = "idle"
    /\ llmCalls' = [llmCalls EXCEPT !.controller = @ + 1]
    /\ raised' = "LLMException"
    /\ pc' = "raised"
    /\ history_text' = build_chat_history(chat_history, DefaultMaxHistoryLen)
    /\ UNCHANGED <<config, expired, chat_history, ctxBudget, chainHistory,
                   chainOrder, llmQuery, llmLines, response, plan, cursor,
                   evaluation, choices, prompt, final, turn, reformulated>>

\* Controller._execute with a completion written from a list of `lists`
ControllerExecute(queries, lists) ==
    /\ pc = "idle"
    /\ \E form \in Forms, q \in queries, lines \in lists :
          \E out \in {Controller_execute(Render(form, q, lines), Chains,
                                         response_threshold, top_k, ctxBudget)} :
              /\ llmQuery' = q
              /\ llmLines' = lines
              /\ response' = Render(form, q, lines)
              /\ raised' = out.raised
              /\ plan' = out.plan
              /\ reformulated' = IF out.raised = "IndexError" THEN <<>> ELSE out.query
              /\ pc' = IF out.raised = "" THEN "planned" ELSE "raised"
    /\ history_text' = build_chat_history(chat_history, DefaultMaxHistoryLen)
    /\ llmCalls' = [llmCalls EXCEPT !.controller = @ + 1]
    /\ cursor' = 1
    /\ UNCHANGED <<config, expired, chat_history, ctxBudget, chainHistory,
                   chainOrder, evaluation, choices, prompt, final, turn>>

\* what running a unit leaves in the chain's new history: the initial state,
\* then the runner's message, if it produced one
RunHistory(unit, outcome, n) ==
    <<unit.initial_state>> \o
    (CASE outcome = "ok" ->
              <<SkillMessage(<<"answer of ", unit.chain, " in turn ", ToString(n)>>,
                             FALSE)>>
       [] outcome = "error" -> <<SkillMessage(<<"failed">>, TRUE)>>
       [] outcome = "none" -> <<>>)

\* the execution layer runs the next unit of the plan
RunUnit ==
    /\ pc = "planned"
    /\ cursor <= Len(plan)
    /\ \E outcome \in Outcomes :
          LET unit == plan[cursor]
          IN  /\ chainHistory' =
                    [chainHistory EXCEPT ![unit.chain] =
                        Append(@, RunHistory(unit, outcome, turn))]
              /\ chainOrder' =
                    IF chainHistory[unit.chain] = <<>>
                    THEN Append(chainOrder, unit.chain)
                    ELSE chainOrder
    /\ cursor' = cursor + 1
    /\ UNCHANGED <<config, expired, chat_history, ctxBudget, llmQuery, llmLines,
                   response, raised, plan, evaluation, choices, prompt, final,
                   llmCalls, pc, turn, reformulated, history_text>>

\* Evaluator.execute, once every unit of the plan has run
EvaluatorExecute ==
    /\ pc = "planned"
    /\ cursor > Len(plan)
    /\ evaluation' = Evaluator_execute(chainHistory, chainOrder)
    /\ pc' = "evaluated"
    /\ UNCHANGED <<config, expired, chat_history, ctxBudget, chainHistory,
                   chainOrder, llmQuery, llmLines, response, raised, plan, cursor,
                   choices, prompt, final, llmCalls, turn, reformulated,
                   history_text>>

\* LLMFilter._execute: the completion call fails
FilterLLMFails ==
    /\ pc = "evaluated"
    /\ prompt' = BuildContext(evaluation)
    /\ llmCalls' = [llmCalls EXCEPT !.filter = @ + 1]
    /\ raised' = "LLMException"
    /\ pc' = "raised"
    /\ UNCHANGED <<config, expired, chat_history, ctxBudget, chainHistory,
                   chainOrder, llmQuery, llmLines, response, plan, cursor,
                   evaluation, choices, final, turn, reformulated, history_text>>

\* LLMFilter._execute: the completion call returns `choices`
FilterExecute ==
    /\ pc = "evaluated"
    /\ prompt' = BuildContext(evaluation)
    /\ llmCalls' = [llmCalls EXCEPT !.filter = @ + 1]
    /\ \E cs \in ChoiceLists :
          /\ choices' = cs
          /\ final' = LLMFilter_execute(cs)
    /\ pc' = "done"
    /\ UNCHANGED <<config, expired, chat_history, ctxBudget, chainHistory,
                   chainOrder, llmQuery, llmLines, response, raised, plan, cursor,
                   evaluation, turn, reformulated, history_text>>

SessionPlan ==
    ControllerExecute(SessionQueries, SessionLineLists)

Next ==
    \/ NewTurn
    \/ ControllerLLMFails
    \/ SessionPlan
    \/ RunUnit
    \/ EvaluatorExecute
    \/ FilterLLMFails
    \/ FilterExecute

Spec == Init /\ [][Next]_vars

\* The budget of the turn runs out (Budget(600) of example.py line 22 is a
\* duration): from then on context.budget.is_expired() holds.  Nothing in
\* controller.py, evaluator.py or filter.py reads it.
BudgetExpires ==
    /\ controller = "ok"
    /\ turn >= 1
    /\ ~expired
    /\ expired' = TRUE
    /\ UNCHANGED <<config, chat_history, ctxBudget, chainHistory, chainOrder,
                   llmQuery, llmLines, response, raised, plan, cursor,
                   evaluation, choices, prompt, final, llmCalls, pc, turn,
                   reformulated, history_text>>

\* the session with a budget that may run out at any point of a turn
NextBudget ==
    \/ Next
    \/ BudgetExpires

SpecBudget == Init /\ [][NextBudget]_vars

\* planning alone, over every completion of up to MaxLines lines of LineSet
AnyPlan == ControllerExecute(Queries, LineLists(LineSet, MaxLines))

FirstTurn == pc = "ready" /\ NewTurn

NextPlan ==
    \/ FirstTurn
    \/ ControllerLLMFails
    \/ AnyPlan

SpecPlan == Init /\ [][NextPlan]_vars

\* parse_response alone, over reformulated queries that hold the label, the
\* delimiter or surrounding whitespace themselves
ParseQueries ==
    { <<"How", SP, "old", SP, "is", SP, "he?">>,
      <<"What", SP, "does", SP, LABEL1, SP, "mean?">>,
      <<"Is", SP, LABEL2, SP, "next?">>,
      <<"before", SP, DELIM, SP, "after">>,
      <<SP, "Price?", SP>> }

ParseLineLists == { <<>>, <<DocLine>>, <<DocLine, PandasLine>> }

ParsePlan == ControllerExecute(ParseQueries, ParseLineLists)

NextParse ==
    \/ FirstTurn
    \/ ControllerLLMFails
    \/ ParsePlan

SpecParse == Init /\ [][NextParse]_vars

\* build_chat_history alone: the planning call of a turn that starts from a
\* chat history of up to MaxPrior earlier messages of any kind
PriorKinds == {"User", "Agent", "Chain"}

ChatMessageOf(kind, text) ==
    [kind |-> kind, message |-> text, source |-> "", is_error |-> FALSE]

PriorHistories ==
    UNION { { [i \in 1..n |-> ChatMessageOf(k[i], <<"message ", ToString(i)>>)] :
                k \in [1..n -> PriorKinds] } : n \in 0..MaxPrior }

InitHistory ==
    /\ controller = "ok"
    /\ response_threshold \in Thresholds
    /\ top_k \in TopKs
    /\ \E prior \in PriorHistories, q \in UserTexts :
          chat_history = prior \o <<UserMessage(q)>>
    /\ ctxBudget = 1
    /\ chainHistory = [c \in Chains |-> <<>>]
    /\ chainOrder = <<>>
    /\ llmQuery = <<>>
    /\ llmLines = <<>>
    /\ response = <<>>
    /\ raised = ""
    /\ plan = <<>>
    /\ cursor = 1
    /\ evaluation = <<>>
    /\ choices = <<>>
    /\ prompt = <<>>
    /\ final = <<>>
    /\ llmCalls = NoCalls
    /\ pc = "idle"
    /\ turn = 1
    /\ reformulated = <<>>
    /\ history_text = <<>>
    /\ expired = FALSE

HistoryPlan == ControllerExecute(SessionQueries, { <<DocLine>> })

NextHistory ==
    \/ ControllerLLMFails
    \/ HistoryPlan

SpecHistory == InitHistory /\ [][NextHistory]_vars

\* ------------------------------------------------------------- properties
\* The planning completion of the turn has been received and handled.
Handled == llmCalls.controller = 1 /\ raised # "LLMException" /\ pc # "idle"

Delimited == \E i \in 1..Len(response) : response[i] = DELIM

\* the score lines of the completion that name a registered chain with a
\* numeric score above the threshold
Qualifying ==
    {i \in 1..Len(llmLines) :
        /\ llmLines[i] \in ValidLines
        /\ LineScore(llmLines[i]) > response_threshold}

QualifyingFor(c) == {i \in Qualifying : LineChain(llmLines[i]) = c}
UnitsOf(c) == {u \in 1..Len(plan) : plan[u].chain = c}

\* C1: no source is in the plan on the strength of a score line whose score
\* is less than or equal to the threshold: the plan holds, for every chain, at
\* most as many units as there are lines naming it with a score strictly above
\* the threshold (a line scored exactly at the threshold yields no unit).
C1_ThresholdIsStrict ==
    pc = "planned" =>
        \A c \in Chains : Cardinality(UnitsOf(c)) <= Cardinality(QualifyingFor(c))

C1_Witness ==
    /\ pc = "planned"
    /\ plan # <<>>
    /\ \E i \in 1..Len(llmLines) :
          /\ llmLines[i] \in ValidLines
          /\ LineScore(llmLines[i]) = response_threshold
          /\ UnitsOf(LineChain(llmLines[i])) = {}

\* C2 as claimed: every line naming a registered source with a score above
\* the threshold has its source in the plan, whatever top_k is.
C2_EveryQualifyingSourcePlanned ==
    pc = "planned" => \A i \in Qualifying : UnitsOf(LineChain(llmLines[i])) # {}

\* C2 amended: when the number of qualifying lines does not exceed top_k,
\* every qualifying line has its unit in the plan (one unit per line).
C2_QualifyingPlannedWithinTopK ==
    (pc = "planned" /\ Cardinality(Qualifying) <= top_k) =>
        \A c \in Chains : Cardinality(UnitsOf(c)) = Cardinality(QualifyingFor(c))

C2_Witness ==
    /\ pc = "planned"
    /\ Cardinality(Qualifying) = top_k
    /\ Len(plan) >= 2
    /\ \E u, v \in 1..Len(plan) : plan[u].chain # plan[v].chain

\* C3: the plan never has more than top_k entries.
C3_PlanAtMostTopK == Len(plan) <= top_k

C3_Witness ==
    /\ pc = "planned"
    /\ top_k > 0
    /\ Cardinality(Qualifying) > top_k
    /\ Len(plan) = top_k

\* line i of the completion ranks before line j: higher score, or the same
\* score and earlier in the text
Before(i, j) ==
    \/ LineScore(llmLines[i]) > LineScore(llmLines[j])
    \/ LineScore(llmLines[i]) = LineScore(llmLines[j]) /\ i < j

RankedLine(p) ==
    CHOOSE i \in Qualifying :
        Cardinality({j \in Qualifying : Before(j, i)}) = p - 1

\* C4: the plan lists the qualifying lines by score descending, lines of equal
\* score in the order of the completion text, and holds the first top_k of
\* that order.
C4_StableDescendingPrefix ==
    pc = "planned" =>
        /\ Len(plan) <= Cardinality(Qualifying)
        /\ \A p \in 1..Len(plan) :
              plan[p].chain = LineChain(llmLines[RankedLine(p)])

C4_Witness ==
    /\ pc = "planned"
    /\ Len(plan) < Cardinality(Qualifying)
    /\ \E p \in 1..(Len(plan) - 1) :
          /\ LineScore(llmLines[RankedLine(p)])
                = LineScore(llmLines[RankedLine(p + 1)])
          /\ plan[p].chain # plan[p + 1].chain

\* C5 as claimed: a completion without the "---" delimiter ends the planning
\* cycle with an empty plan and no exception.
C5_UndelimitedGivesEmptyPlan ==
    (Handled /\ ~Delimited) => (raised = "" /\ pc = "planned" /\ plan = <<>>)

IsValid(line) == line \in ValidLines

\* C6: invalid score lines ("unknown", unregistered source, non-numeric score)
\* are dropped without raising: the plan is the plan of the completion with
\* only its valid lines, and it is empty when no line is valid.
C6_InvalidLinesDropped ==
    (Handled /\ Delimited) =>
        /\ raised = ""
        /\ pc # "raised"
        /\ plan = Controller_execute(
                      WellFormed(llmQuery, SelectSeq(llmLines, IsValid)),
                      Chains, response_threshold, top_k, ctxBudget).plan
        /\ (\A i \in 1..Len(llmLines) : llmLines[i] \in InvalidLines)
              => plan = <<>>

C6_Witness ==
    /\ pc = "planned"
    /\ plan # <<>>
    /\ \E i, j \in 1..Len(llmLines) :
          /\ llmLines[i] = <<"unknown">>
          /\ llmLines[j] \in InvalidLines \ { <<"unknown">> }

\* C10: every unit of the plan carries a Chain-kind message whose text is the
\* reformulated query of the completion, and the budget of the context.
C10_UnitsShareQueryAndBudget ==
    pc = "planned" =>
        \A u \in 1..Len(plan) :
            /\ plan[u].initial_state.kind = "Chain"
            /\ plan[u].initial_state.message = llmQuery
            /\ plan[u].budget = ctxBudget

C10_Witness ==
    /\ pc = "planned"
    /\ Len(plan) >= 2
    /\ plan[1].initial_state = plan[2].initial_state
    /\ plan[1].initial_state.message = llmQuery

\* the text of the completion before its first "---"
FirstSegment ==
    SubSeq(response, 1,
           (CHOOSE k \in 1..Len(response) :
                response[k] = DELIM /\ \A j \in 1..(k - 1) : response[j] # DELIM)
           - 1)

WithoutLeadingLabel(s) == IF s # <<>> /\ s[1] = LABEL1 THEN Tail(s) ELSE s

\* C11 as claimed: the reformulated query is the first segment with its
\* leading "Subtask 1:" label and the surrounding whitespace removed, and
\* nothing else changed, whatever the query text holds.
C11_QueryIsFirstSegmentUnlabelled ==
    (Handled /\ Delimited) =>
        reformulated = strip(WithoutLeadingLabel(strip(FirstSegment)))

\* The planning prompt of the turn has been built.
PromptBuilt == llmCalls.controller = 1

PriorCount == Len(chat_history) - 1

\* the lines of the messages i..PriorCount of the chat history
RECURSIVE LinesFrom(_)
LinesFrom(i) ==
    IF i > PriorCount THEN <<>>
    ELSE (CASE chat_history[i].kind = "User" ->
                   <<"User: ">> \o chat_history[i].message \o <<NL>>
            [] chat_history[i].kind = "Agent" ->
                   <<"Assistant: ">> \o chat_history[i].message \o <<NL>>
            [] OTHER -> <<>>)
         \o LinesFrom(i + 1)

\* C12: the rendered history holds, in order, one "User: ..." or
\* "Assistant: ..." line per User or Agent message among the last 4 messages
\* that precede the most recent one, nothing for any other kind, and is the
\* literal "No conversational history" when no message precedes the most
\* recent one.
C12_HistoryIsLastFourPrior ==
    PromptBuilt =>
        history_text =
            IF PriorCount < 1
            THEN <<"No conversational history">>
            ELSE LinesFrom(Max(1, PriorCount - DefaultMaxHistoryLen + 1))

C12_Witness ==
    /\ PromptBuilt
    /\ PriorCount > DefaultMaxHistoryLen
    /\ chat_history[1].kind = "User"
    /\ \E i, j, k \in 2..PriorCount :
          /\ chat_history[i].kind = "Chain"
          /\ chat_history[j].kind = "User"
          /\ chat_history[k].kind = "Agent"
          /\ j < k
    /\ \A n \in 1..Len(history_text) : history_text[n] # "1"

\* ------------------------------------------------ properties of the session
EvaluatorRan == pc \in {"evaluated", "done"}

\* the last outcome message of the chain comes from a skill and is no error
Succeeded(c) ==
    /\ chainHistory[c] # <<>>
    /\ Last(Last(chainHistory[c])).kind = "Skill"
    /\ ~Last(Last(chainHistory[c])).is_error

EntriesOf(c) ==
    {k \in 1..Len(evaluation) : evaluation[k].message.source = c}

\* C7: the evaluator returns exactly one entry per source whose last outcome
\* is a skill message without error flag and none for any other source; each
\* entry has score 1.0, the outcome's text and the source's name.
C7_OneEntryPerSuccess ==
    EvaluatorRan =>
        /\ \A c \in Chains :
              Cardinality(EntriesOf(c)) = IF Succeeded(c) THEN 1 ELSE 0
        /\ \A k \in 1..Len(evaluation) :
              /\ evaluation[k].score = 1
              /\ evaluation[k].message.source \in Chains
              /\ evaluation[k].message.message =
                    Last(Last(chainHistory[evaluation[k].message.source])).message

C7_Witness ==
    /\ EvaluatorRan
    /\ Len(evaluation) = 1
    /\ \E c \in Chains :
          /\ chainHistory[c] # <<>>
          /\ Last(Last(chainHistory[c])).is_error

\* C8 as claimed: the outcomes collected in a turn come only from sources
\* selected by the plan of that turn.
C8_OnlySourcesOfThisPlan ==
    EvaluatorRan =>
        \A k \in 1..Len(evaluation) : UnitsOf(evaluation[k].message.source) # {}

\* C9: the synthesizer calls the completion interface once and returns one
\* Agent message with score 1.0 holding the first choice; with no collected
\* outcome the context body is empty and the call is still made.
C9_OneAnswerFromFirstChoice ==
    pc = "done" =>
        /\ llmCalls.filter = 1
        /\ raised = ""
        /\ Len(final) = 1
        /\ final[1].score = 1
        /\ final[1].message.kind = "Agent"
        /\ final[1].message.message = choices[1]
        /\ (evaluation = <<>> => prompt = <<>>)

C9_Witness ==
    /\ pc = "done"
    /\ evaluation = <<>>
    /\ chainOrder # <<>>
    /\ Len(choices) = 2
    /\ choices[1] # choices[2]
    /\ Len(final) = 1

\* C13 as claimed: once the budget of the turn is exhausted, neither the
\* controller nor the synthesizer issues a further completion call.
C13_NoCompletionCallOnceExhausted ==
    [][expired =>
          /\ llmCalls'.controller <= llmCalls.controller
          /\ llmCalls'.filter <= llmCalls.filter]_vars

====
